---------------------------- MODULE Spec2Model ----------------------------
(***************************************************************************)
(* Patient Management System (src/HTTP_method/project.py).                 *)
(*                                                                         *)
(* The persisted state is the file patients.json: a JSON object mapping    *)
(* patient IDs to patient records, loaded and rewritten in full by every   *)
(* request handler.                                                        *)
(*                                                                         *)
(* Representation.                                                         *)
(*   - A Python str that the code inspects character by character (a       *)
(*     patient ID, a URL path segment) is a sequence of one-character      *)
(*     strings: "P001" is <<"P","0","0","1">>.  Other strings are opaque.  *)
(*   - A JSON value that may be null is <<>> (None) or <<v>> (the value).  *)
(*   - height is in centimetres and weight in kilograms, both integers;    *)
(*     the code's height in metres is height/100.  bmi is in hundredths:   *)
(*     the code's round(x, 2) yields bmi/100.                              *)
(***************************************************************************)
EXTENDS Integers, Sequences, FiniteSets

VARIABLES
    file,     \* patients.json: [state: missing | valid | corrupt, data: ID -> record]
    req,      \* the last request: [method, path], or a direct call of a handler
    resp,     \* the response to it: [handler, status, args, body]
    hist,     \* history: the successful creates and deletes, <<kind, ID>>, in order
    workers,  \* concurrent requests: per worker thread, the request it is serving
    writer,   \* the worker whose save last wrote the file (0: none yet)
    started   \* the number of concurrent requests started

vars == <<file, req, resp, hist, workers, writer, started>>

(***************************************************************************)
(* Bounds of the model.                                                    *)
(***************************************************************************)
MaxRecords == 2     \* creates are issued while the collection is smaller
MaxHist == 4        \* creates and deletes are issued while hist is shorter
MaxRequests == 3    \* concurrent requests are started while fewer have been

None == <<>>
Some(v) == <<v>>
IsNone(x) == x = <<>>
Val(x) == x[1]

Fields == {"name", "city", "age", "gender", "height", "weight"}

(***************************************************************************)
(* Python str(n), s.zfill(w), int(s) on character sequences.               *)
(***************************************************************************)
DigitChars == <<"0", "1", "2", "3", "4", "5", "6", "7", "8", "9">>

RECURSIVE Str(_)
Str(n) == IF n < 10 THEN <<DigitChars[n + 1]>>
          ELSE Str(n \div 10) \o <<DigitChars[(n % 10) + 1]>>

RECURSIVE Zfill(_, _)
Zfill(s, w) == IF Len(s) >= w THEN s ELSE Zfill(<<"0">> \o s, w)

DigitValue(c) == CHOOSE d \in 0..9 : DigitChars[d + 1] = c

RECURSIVE ParseInt(_)
ParseInt(s) == IF Len(s) = 1 THEN DigitValue(s[1])
               ELSE 10 * ParseInt(SubSeq(s, 1, Len(s) - 1)) + DigitValue(s[Len(s)])

SetMax(S) == CHOOSE m \in S : \A x \in S : x <= m
SetMin(S) == CHOOSE m \in S : \A x \in S : m <= x

(***************************************************************************)
(* Python round(): the nearest multiple, a tie going to the even one.      *)
(* RoundDiv(n, d) is round(n / d) for n >= 0, d > 0.                       *)
(***************************************************************************)
RoundDiv(n, d) ==
    LET q == n \div d
        r == n % d
    IN  IF 2 * r < d THEN q
        ELSE IF 2 * r > d THEN q + 1
        ELSE IF q % 2 = 0 THEN q ELSE q + 1

(***************************************************************************)
(* The file patients.json and the two functions that touch it.             *)
(***************************************************************************)
NoData == <<>>

MissingFile == [state |-> "missing", data |-> NoData]
ValidFile(data) == [state |-> "valid", data |-> data]
CorruptFile == [state |-> "corrupt", data |-> NoData]

\* load_data: {} when the file does not exist, HTTPException(500) when it does
\* not parse.
load_data(f) ==
    IF f.state = "corrupt"
    THEN [raised |-> TRUE, data |-> NoData]
    ELSE [raised |-> FALSE, data |-> f.data]

\* What the file system lets a save do.  open(path, 'w') truncates the file
\* before json.dump writes anything, so a write that fails after the open
\* leaves a file that no longer parses.
SaveOutcomes == {"written", "open_fails", "write_fails"}

save_data(f, data, outcome) ==
    CASE outcome = "written" -> [raised |-> FALSE, file |-> ValidFile(data)]
      [] outcome = "open_fails" -> [raised |-> TRUE, file |-> f]
      [] outcome = "write_fails" -> [raised |-> TRUE, file |-> CorruptFile]

Put(data, id, rec) ==
    [i \in (DOMAIN data) \cup {id} |-> IF i = id THEN rec ELSE data[i]]

Pop(data, id) ==
    IF DOMAIN data = {id} THEN NoData
    ELSE [i \in (DOMAIN data) \ {id} |-> data[i]]

(***************************************************************************)
(* calculate_bmi, get_bmi_verdict, generate_patient_id.                    *)
(***************************************************************************)
\* weight / (height ** 2) on values that may be None or 0, then round(_, 2).
\* The quotient is taken exactly (the code's is a binary float); in
\* hundredths it is weight * 10^6 / height_cm^2.
calculate_bmi(height, weight) ==
    IF IsNone(height) \/ IsNone(weight)
    THEN [raised |-> "TypeError", value |-> 0]
    ELSE IF Val(height) = 0
    THEN [raised |-> "ZeroDivisionError", value |-> 0]
    ELSE [raised |-> "",
          value |-> RoundDiv(Val(weight) * 1000000, Val(height) * Val(height))]

get_bmi_verdict(bmi) ==
    IF bmi < 1850 THEN "Underweight"
    ELSE IF 1850 <= bmi /\ bmi < 2500 THEN "Normal"
    ELSE IF 2500 <= bmi /\ bmi < 3000 THEN "Overweight"
    ELSE "Obese"

\* an ID from the number of records instead of the greatest ID
generate_patient_id_count(data) ==
    <<"P">> \o Zfill(Str(Cardinality(DOMAIN data) + 1), 3)

generate_patient_id(data) ==
    IF DOMAIN data = {}
    THEN <<"P", "0", "0", "1">>
    ELSE LET max_id == SetMax({ParseInt(Tail(pid)) : pid \in DOMAIN data})
         IN  <<"P">> \o Zfill(Str(max_id + 1), 3)

(***************************************************************************)
(* Responses.  A handler takes the file and its arguments and yields the   *)
(* file it leaves and the response: [file |-> ..., resp |-> ...].          *)
(***************************************************************************)
Response(handler, status, args, body) ==
    [handler |-> handler, status |-> status, args |-> args, body |-> body]

NoArgs == [none |-> TRUE]

\* HTTPException(500) raised by load_data
LoadError(handler, args) ==
    Response(handler, 500, args, [detail |-> "Error reading patient data"])

\* HTTPException(500) raised by save_data
SaveError(handler, args) ==
    Response(handler, 500, args, [detail |-> "Error saving data"])

\* an exception no handler catches: the framework answers 500
Uncaught(handler, args, exception) ==
    Response(handler, 500, args, [detail |-> "Internal Server Error",
                                  exception |-> exception])

NotFound(handler, args) ==
    Response(handler, 404, args, [detail |-> "Patient not found"])

(***************************************************************************)
(* GET /patients, GET /patients/{patient_id}, GET /view                    *)
(***************************************************************************)
get_all_patients(f) ==
    LET ld == load_data(f)
        data == ld.data
    IN  IF ld.raised
        THEN [file |-> f, resp |-> LoadError("get_all_patients", NoArgs)]
        ELSE IF DOMAIN data = {}
        THEN [file |-> f,
              resp |-> Response("get_all_patients", 200, NoArgs,
                           [message |-> "No patients found", patients |-> NoData])]
        ELSE [file |-> f,
              resp |-> Response("get_all_patients", 200, NoArgs,
                           [total_patients |-> Cardinality(DOMAIN data),
                            patients |-> data])]

get_patient(f, patient_id) ==
    LET args == [patient_id |-> patient_id]
        ld == load_data(f)
        data == ld.data
    IN  IF ld.raised
        THEN [file |-> f, resp |-> LoadError("get_patient", args)]
        ELSE IF patient_id \notin DOMAIN data
        THEN [file |-> f, resp |-> NotFound("get_patient", args)]
        ELSE [file |-> f,
              resp |-> Response("get_patient", 200, args,
                           [patient_id |-> patient_id,
                            patient_data |-> data[patient_id]])]

view(f) ==
    LET ld == load_data(f)
    IN  IF ld.raised
        THEN [file |-> f, resp |-> LoadError("view", NoArgs)]
        ELSE [file |-> f, resp |-> Response("view", 200, NoArgs, ld.data)]

(***************************************************************************)
(* POST /patients                                                          *)
(***************************************************************************)
add_patient(f, patient, outcome) ==
    LET args == [patient |-> patient]
        ld == load_data(f)
        data == ld.data
        patient_id == generate_patient_id(data)
        bmi == calculate_bmi(patient.height, patient.weight)
        verdict == get_bmi_verdict(bmi.value)
        patient_data == [name |-> patient.name, city |-> patient.city,
                         age |-> patient.age, gender |-> patient.gender,
                         height |-> patient.height, weight |-> patient.weight,
                         bmi |-> bmi.value, verdict |-> verdict]
        saved == save_data(f, Put(data, patient_id, patient_data), outcome)
    IN  IF ld.raised
        THEN [file |-> f, resp |-> LoadError("add_patient", args)]
        ELSE IF bmi.raised # ""
        THEN [file |-> f, resp |-> Uncaught("add_patient", args, bmi.raised)]
        ELSE IF saved.raised
        THEN [file |-> saved.file, resp |-> SaveError("add_patient", args)]
        ELSE [file |-> saved.file,
              resp |-> Response("add_patient", 201, args,
                           [message |-> "Patient added successfully",
                            patient_id |-> patient_id,
                            patient_data |-> patient_data])]

(***************************************************************************)
(* PUT /patients/{patient_id}                                              *)
(*                                                                         *)
(* patient_update is patient_update.dict(exclude_unset=True): a function   *)
(* from the fields the request body sets to their values, null included.   *)
(***************************************************************************)
\* an update that replaces the record: a field the input leaves out is reset
ApplyUpdate_Replace(patient_data, update_data) ==
    [k \in DOMAIN patient_data |->
        IF k \in DOMAIN update_data THEN update_data[k]
        ELSE IF k \in {"name", "city", "age", "gender"} THEN None
        ELSE patient_data[k]]

\* for field, value in update_data.items(): patient_data[field] = value
ApplyUpdate(patient_data, update_data) ==
    [k \in DOMAIN patient_data |->
        IF k \in DOMAIN update_data THEN update_data[k] ELSE patient_data[k]]

\* a recomputation that a change of the weight alone does not trigger
NeedsBmi_HeightOnly(update_data) == "height" \in DOMAIN update_data

\* if "height" in update_data or "weight" in update_data
NeedsBmi(update_data) ==
    "height" \in DOMAIN update_data \/ "weight" \in DOMAIN update_data

update_patient(f, patient_id, update_data, outcome) ==
    LET args == [patient_id |-> patient_id, update_data |-> update_data]
        ld == load_data(f)
        data == ld.data
        applied == ApplyUpdate(data[patient_id], update_data)
        bmi == calculate_bmi(applied.height, applied.weight)
        patient_data ==
            IF NeedsBmi(update_data)
            THEN [applied EXCEPT !.bmi = bmi.value,
                                 !.verdict = get_bmi_verdict(bmi.value)]
            ELSE applied
        saved == save_data(f, Put(data, patient_id, patient_data), outcome)
    IN  IF ld.raised
        THEN [file |-> f, resp |-> LoadError("update_patient", args)]
        ELSE IF patient_id \notin DOMAIN data
        THEN [file |-> f, resp |-> NotFound("update_patient", args)]
        ELSE IF NeedsBmi(update_data) /\ bmi.raised # ""
        THEN [file |-> f, resp |-> Uncaught("update_patient", args, bmi.raised)]
        ELSE IF saved.raised
        THEN [file |-> saved.file, resp |-> SaveError("update_patient", args)]
        ELSE [file |-> saved.file,
              resp |-> Response("update_patient", 200, args,
                           [message |-> "Patient updated successfully",
                            patient_id |-> patient_id,
                            patient_data |-> patient_data])]

(***************************************************************************)
(* DELETE /patients/{patient_id}                                           *)
(***************************************************************************)
\* a delete that answers without saving the collection it popped from
delete_patient_unsaved(f, patient_id, outcome) ==
    LET args == [patient_id |-> patient_id]
        ld == load_data(f)
        data == ld.data
    IN  IF ld.raised
        THEN [file |-> f, resp |-> LoadError("delete_patient", args)]
        ELSE IF patient_id \notin DOMAIN data
        THEN [file |-> f, resp |-> NotFound("delete_patient", args)]
        ELSE [file |-> f,
              resp |-> Response("delete_patient", 200, args,
                           [message |-> "Patient deleted successfully",
                            deleted_patient_id |-> patient_id,
                            deleted_patient_data |-> data[patient_id]])]

delete_patient(f, patient_id, outcome) ==
    LET args == [patient_id |-> patient_id]
        ld == load_data(f)
        data == ld.data
        deleted_patient == data[patient_id]
        saved == save_data(f, Pop(data, patient_id), outcome)
    IN  IF ld.raised
        THEN [file |-> f, resp |-> LoadError("delete_patient", args)]
        ELSE IF patient_id \notin DOMAIN data
        THEN [file |-> f, resp |-> NotFound("delete_patient", args)]
        ELSE IF saved.raised
        THEN [file |-> saved.file, resp |-> SaveError("delete_patient", args)]
        ELSE [file |-> saved.file,
              resp |-> Response("delete_patient", 200, args,
                           [message |-> "Patient deleted successfully",
                            deleted_patient_id |-> patient_id,
                            deleted_patient_data |-> deleted_patient])]

(***************************************************************************)
(* GET /patients/city/{city}                                               *)
(***************************************************************************)
UpperChars == <<"A", "B", "C", "D", "E", "F", "G", "H", "I", "J", "K", "L", "M",
                "N", "O", "P", "Q", "R", "S", "T", "U", "V", "W", "X", "Y", "Z">>
LowerChars == <<"a", "b", "c", "d", "e", "f", "g", "h", "i", "j", "k", "l", "m",
                "n", "o", "p", "q", "r", "s", "t", "u", "v", "w", "x", "y", "z">>

\* str.lower()
Lower(s) ==
    [i \in 1..Len(s) |->
        IF \E k \in 1..Len(UpperChars) : UpperChars[k] = s[i]
        THEN LowerChars[CHOOSE k \in 1..Len(UpperChars) : UpperChars[k] = s[i]]
        ELSE s[i]]

get_patients_by_city(f, city) ==
    LET args == [city |-> city]
        ld == load_data(f)
        data == ld.data
        matching == {pid \in DOMAIN data : Lower(Val(data[pid].city)) = Lower(city)}
        city_patients == IF matching = {} THEN NoData
                         ELSE [pid \in matching |-> data[pid]]
    IN  IF ld.raised
        THEN [file |-> f, resp |-> LoadError("get_patients_by_city", args)]
        ELSE IF \E pid \in DOMAIN data : IsNone(data[pid].city)
        THEN [file |-> f,
              resp |-> Uncaught("get_patients_by_city", args, "AttributeError")]
        ELSE IF matching = {}
        THEN [file |-> f,
              resp |-> Response("get_patients_by_city", 200, args,
                           [message |-> "No patients found in city",
                            patients |-> NoData])]
        ELSE [file |-> f,
              resp |-> Response("get_patients_by_city", 200, args,
                           [city |-> city,
                            total_patients |-> Cardinality(matching),
                            patients |-> city_patients])]

(***************************************************************************)
(* get_patient_statistics                                                  *)
(***************************************************************************)
RECURSIVE SumOver(_, _, _)
SumOver(data, ids, field) ==
    IF ids = {} THEN 0
    ELSE LET pid == CHOOSE x \in ids : TRUE
         IN  (IF field = "age" THEN Val(data[pid].age) ELSE data[pid].bmi)
             + SumOver(data, ids \ {pid}, field)

\* stats = {}; for patient in data.values(): stats[v] = stats.get(v, 0) + 1
Distribution(data, field) ==
    LET values == {data[pid][field] : pid \in DOMAIN data}
    IN  [v \in values |->
            Cardinality({pid \in DOMAIN data : data[pid][field] = v})]

get_patient_statistics(f) ==
    LET ld == load_data(f)
        data == ld.data
        ids == DOMAIN data
        total_patients == Cardinality(ids)
        ages == {Val(data[pid].age) : pid \in ids}
        bmis == {data[pid].bmi : pid \in ids}
    IN  IF ld.raised
        THEN [file |-> f, resp |-> LoadError("get_patient_statistics", NoArgs)]
        ELSE IF ids = {}
        THEN [file |-> f,
              resp |-> Response("get_patient_statistics", 200, NoArgs,
                           [message |-> "No patients found for statistics"])]
        ELSE IF \E pid \in ids : IsNone(data[pid].age)
        THEN \* sum(ages) adds None to a number
             [file |-> f,
              resp |-> Uncaught("get_patient_statistics", NoArgs, "TypeError")]
        ELSE [file |-> f,
              resp |-> Response("get_patient_statistics", 200, NoArgs,
                  [total_patients |-> total_patients,
                   age_statistics |->
                       [average_age |->
                            RoundDiv(10 * SumOver(data, ids, "age"), total_patients),
                        min_age |-> SetMin(ages),
                        max_age |-> SetMax(ages)],
                   bmi_statistics |->
                       [average_bmi |->
                            RoundDiv(SumOver(data, ids, "bmi"), total_patients),
                        min_bmi |-> SetMin(bmis),
                        max_bmi |-> SetMax(bmis)],
                   gender_distribution |-> Distribution(data, "gender"),
                   city_distribution |-> Distribution(data, "city"),
                   bmi_verdict_distribution |-> Distribution(data, "verdict")])]

(***************************************************************************)
(* Routing.  The decorators register the routes in source order and the    *)
(* router hands a request to the first route whose path and method match.  *)
(* A path is the sequence of its segments; Param matches any one segment.  *)
(***************************************************************************)
Lit(chars) == [param |-> FALSE, chars |-> chars]
Param == [param |-> TRUE, chars |-> <<>>]

seg_patients == <<"p", "a", "t", "i", "e", "n", "t", "s">>
seg_about == <<"a", "b", "o", "u", "t">>
seg_city == <<"c", "i", "t", "y">>
seg_stats == <<"s", "t", "a", "t", "s">>
seg_view == <<"v", "i", "e", "w">>
Boston == <<"B", "o", "s", "t", "o", "n">>

Route(method, path, endpoint) ==
    [method |-> method, path |-> path, endpoint |-> endpoint]

Routes == <<
    Route("GET", <<>>, "root"),
    Route("GET", <<Lit(seg_about)>>, "about"),
    Route("GET", <<Lit(seg_patients)>>, "get_all_patients"),
    Route("GET", <<Lit(seg_patients), Param>>, "get_patient"),
    Route("POST", <<Lit(seg_patients)>>, "add_patient"),
    Route("PUT", <<Lit(seg_patients), Param>>, "update_patient"),
    Route("DELETE", <<Lit(seg_patients), Param>>, "delete_patient"),
    Route("GET", <<Lit(seg_patients), Lit(seg_city), Param>>, "get_patients_by_city"),
    Route("GET", <<Lit(seg_patients), Lit(seg_stats)>>, "get_patient_statistics"),
    Route("GET", <<Lit(seg_view)>>, "view")
>>

PathMatches(pattern, path) ==
    /\ Len(pattern) = Len(path)
    /\ \A i \in 1..Len(pattern) :
          IF pattern[i].param THEN path[i] # <<>> ELSE pattern[i].chars = path[i]

\* the index of the route that handles the request; 0 when no path matches
\* (404), -1 when a path matches but no method does (405)
Dispatch(method, path) ==
    LET full == {i \in 1..Len(Routes) :
                    PathMatches(Routes[i].path, path) /\ Routes[i].method = method}
        partial == {i \in 1..Len(Routes) : PathMatches(Routes[i].path, path)}
    IN  IF full # {} THEN SetMin(full)
        ELSE IF partial # {} THEN -1
        ELSE 0

root(f) ==
    [file |-> f,
     resp |-> Response("root", 200, NoArgs,
                  [message |-> "Welcome to Patient Management System"])]

about(f) ==
    [file |-> f,
     resp |-> Response("about", 200, NoArgs,
                  [author |-> "Patient Management System v1.0"])]

\* The application serving one request: the router picks the endpoint, the
\* endpoint runs with the path parameters and the request body.
Serve(f, method, path, body, outcome) ==
    LET r == Dispatch(method, path)
        endpoint == Routes[r].endpoint
    IN  CASE r = 0 ->
               [file |-> f,
                resp |-> Response("", 404, NoArgs, [detail |-> "Not Found"])]
          [] r = -1 ->
               [file |-> f,
                resp |-> Response("", 405, NoArgs, [detail |-> "Method Not Allowed"])]
          [] r > 0 /\ endpoint = "root" -> root(f)
          [] r > 0 /\ endpoint = "about" -> about(f)
          [] r > 0 /\ endpoint = "get_all_patients" -> get_all_patients(f)
          [] r > 0 /\ endpoint = "get_patient" -> get_patient(f, path[2])
          [] r > 0 /\ endpoint = "add_patient" -> add_patient(f, body, outcome)
          [] r > 0 /\ endpoint = "update_patient" ->
               update_patient(f, path[2], body, outcome)
          [] r > 0 /\ endpoint = "delete_patient" ->
               delete_patient(f, path[2], outcome)
          [] r > 0 /\ endpoint = "get_patients_by_city" ->
               get_patients_by_city(f, path[3])
          [] r > 0 /\ endpoint = "get_patient_statistics" ->
               get_patient_statistics(f)
          [] r > 0 /\ endpoint = "view" -> view(f)

(***************************************************************************)
(* The requests of the model.                                              *)
(***************************************************************************)
\* request bodies of POST /patients that pass the validation of Patient
\* (every field present and not null; no range is checked)
PatientInputs ==
    [name : {Some("Ann")}, city : {Some(Boston)}, age : {Some(20)},
     gender : {Some("F")}, height : {Some(0), Some(160)},
     weight : {Some(47), Some(64)}]

\* request bodies of PUT /patients/{patient_id} that pass the validation of
\* PatientUpdate, as the fields they set
UpdateInputs == <<
    [age |-> None],
    [weight |-> Some(47)],
    [height |-> Some(160)],
    [height |-> Some(0)],
    [height |-> None],
    [age |-> Some(20), weight |-> Some(64)]
>>

\* the patient IDs requests name: the IDs the model can assign, and "stats"
PathIds == {<<"P">> \o Zfill(Str(n), 3) : n \in 1..MaxRecords + 1} \cup {seg_stats}

NoBody == <<>>

(***************************************************************************)
(* The state machine: one request at a time, each served to completion.    *)
(***************************************************************************)
\* Endpoints declared with def run in the framework's thread pool: two
\* requests can be in flight at once.
Workers == {1, 2}

Idle == [pc |-> "idle", endpoint |-> "", patient_id |-> <<>>, body |-> NoBody,
         snapshot |-> MissingFile, resp |-> Response("", 0, NoArgs, NoData)]

HttpRequest(method, path) == [via |-> "http", method |-> method, path |-> path]
DirectCall(handler) == [via |-> "call", method |-> handler, path |-> <<>>]

Init ==
    /\ file = MissingFile
    /\ req = DirectCall("")
    /\ resp = Response("", 0, NoArgs, NoData)
    /\ hist = <<>>
    /\ workers = [w \in Workers |-> Idle]
    /\ writer = 0
    /\ started = 0

\* the history after a request: a create that answered 201 and a delete that
\* answered 200 are recorded with the ID they name
Record(h, r) ==
    IF r.handler = "add_patient" /\ r.status = 201
    THEN Append(h, <<"create", r.body.patient_id>>)
    ELSE IF r.handler = "delete_patient" /\ r.status = 200
    THEN Append(h, <<"delete", r.body.deleted_patient_id>>)
    ELSE h

Http(method, path, body, outcome) ==
    LET out == Serve(file, method, path, body, outcome)
    IN  /\ file' = out.file
        /\ req' = HttpRequest(method, path)
        /\ resp' = out.resp
        /\ hist' = Record(hist, out.resp)
        /\ UNCHANGED <<workers, writer, started>>

\* the outcomes of the save a request on patient_id can reach: a request on an
\* ID that is not in the file answers 404 before it saves
OutcomesFor(patient_id) ==
    IF patient_id \in DOMAIN file.data THEN SaveOutcomes ELSE {"written"}

GetAllPatients == Http("GET", <<seg_patients>>, NoBody, "written")

GetPatient == \E id \in PathIds : Http("GET", <<seg_patients, id>>, NoBody, "written")

AddPatient ==
    /\ Len(hist) < MaxHist
    /\ Cardinality(DOMAIN file.data) < MaxRecords
    /\ \E patient \in PatientInputs, outcome \in SaveOutcomes :
          Http("POST", <<seg_patients>>, patient, outcome)

UpdatePatient ==
    \E id \in PathIds, i \in 1..Len(UpdateInputs) : \E outcome \in OutcomesFor(id) :
        Http("PUT", <<seg_patients, id>>, UpdateInputs[i], outcome)

DeletePatient ==
    /\ Len(hist) < MaxHist
    /\ \E id \in PathIds : \E outcome \in OutcomesFor(id) :
          Http("DELETE", <<seg_patients, id>>, NoBody, outcome)

\* GET /patients/stats, as the router serves it
GetPatientsStats == Http("GET", <<seg_patients, seg_stats>>, NoBody, "written")

\* the statistics operation itself: get_patient_statistics() called as a function
CallStatistics ==
    LET out == get_patient_statistics(file)
    IN  /\ file' = out.file
        /\ req' = DirectCall("get_patient_statistics")
        /\ resp' = out.resp
        /\ hist' = hist
        /\ UNCHANGED <<workers, writer, started>>

Next ==
    \/ GetAllPatients
    \/ GetPatient
    \/ AddPatient
    \/ UpdatePatient
    \/ DeletePatient
    \/ GetPatientsStats
    \/ CallStatistics

Spec == Init /\ [][Next]_vars

(***************************************************************************)
(* Concurrent requests.  A mutating endpoint reads the file once, in       *)
(* load_data at its first line, and writes it once, in save_data at its    *)
(* last: a request is the two steps Load and Finish, and the steps of two  *)
(* workers interleave.  Between them the endpoint works on the collection  *)
(* it loaded.                                                              *)
(***************************************************************************)
\* data = load_data(): the worker keeps the file as it read it
Load(w, endpoint, patient_id, body) ==
    /\ workers[w].pc # "loaded"
    /\ started < MaxRequests
    /\ workers' = [workers EXCEPT ![w] =
                      [pc |-> "loaded", endpoint |-> endpoint,
                       patient_id |-> patient_id, body |-> body,
                       snapshot |-> file, resp |-> Response("", 0, NoArgs, NoData)]]
    /\ started' = started + 1
    /\ UNCHANGED <<file, req, resp, hist, writer>>

LoadAdd ==
    /\ Cardinality(DOMAIN file.data) < MaxRecords
    /\ \E w \in Workers, patient \in PatientInputs :
          Load(w, "add_patient", <<>>, patient)

LoadUpdate ==
    \E w \in Workers, id \in PathIds, i \in 1..Len(UpdateInputs) :
        Load(w, "update_patient", id, UpdateInputs[i])

LoadDelete ==
    \E w \in Workers, id \in PathIds : Load(w, "delete_patient", id, NoBody)

\* the endpoint of worker w run on the collection it loaded
RunOnSnapshot(w, outcome) ==
    LET r == workers[w]
    IN  CASE r.endpoint = "add_patient" -> add_patient(r.snapshot, r.body, outcome)
          [] r.endpoint = "update_patient" ->
               update_patient(r.snapshot, r.patient_id, r.body, outcome)
          [] r.endpoint = "delete_patient" ->
               delete_patient(r.snapshot, r.patient_id, outcome)

\* whether the endpoint got as far as save_data
ReachedSave(r) ==
    r.status \in {200, 201} \/ r.body = [detail |-> "Error saving data"]

\* a save that writes the changed record into the file as it is now
FileAfterSave_Merge(current, out, outcome) ==
    IF ~ReachedSave(out.resp) \/ outcome = "open_fails" THEN current
    ELSE IF outcome = "write_fails" THEN out.file
    ELSE LET id == IF out.resp.handler = "delete_patient"
                   THEN out.resp.body.deleted_patient_id
                   ELSE out.resp.body.patient_id
         IN  IF out.resp.handler = "delete_patient"
             THEN ValidFile(IF id \in DOMAIN current.data
                            THEN Pop(current.data, id) ELSE current.data)
             ELSE ValidFile(Put(current.data, id, out.file.data[id]))

\* save_data in a worker: open(path, 'w') and json.dump(data) replace whatever
\* the file holds by the collection the worker computed
FileAfterSave(current, out, outcome) ==
    IF ~ReachedSave(out.resp) \/ outcome = "open_fails" THEN current ELSE out.file

Finish(w) ==
    /\ workers[w].pc = "loaded"
    /\ \E outcome \in SaveOutcomes :
          LET out == RunOnSnapshot(w, outcome)
          IN  /\ file' = FileAfterSave(file, out, outcome)
              /\ workers' = [workers EXCEPT ![w].pc = "done", ![w].resp = out.resp]
              /\ writer' = IF out.resp.status \in {200, 201} THEN w ELSE writer
    /\ UNCHANGED <<req, resp, hist, started>>

NextConc ==
    \/ LoadAdd
    \/ LoadUpdate
    \/ LoadDelete
    \/ \E w \in Workers : Finish(w)

SpecConc == Init /\ [][NextConc]_vars

(***************************************************************************)
(* Vocabulary of the properties.  These definitions restate what the       *)
(* specification says in its own terms; they do not use the operators      *)
(* that model the code.                                                    *)
(***************************************************************************)
Abs(x) == IF x < 0 THEN -x ELSE x

\* b is n/d rounded to the nearest integer (an exact tie to the even one)
IsRounded(b, n, d) ==
    /\ 2 * Abs(b * d - n) <= d
    /\ (2 * Abs(b * d - n) = d => b % 2 = 0)

\* the classification table of the specification, bmi in hundredths
Classified(bmi, verdict) ==
    \/ bmi < 1850 /\ verdict = "Underweight"
    \/ 1850 <= bmi /\ bmi < 2500 /\ verdict = "Normal"
    \/ 2500 <= bmi /\ bmi < 3000 /\ verdict = "Overweight"
    \/ bmi >= 3000 /\ verdict = "Obese"

\* a record whose bmi and verdict agree with its height and weight
BmiConsistent(r) ==
    /\ ~IsNone(r.height) /\ ~IsNone(r.weight)
    /\ Val(r.height) > 0
    /\ IsRounded(r.bmi, Val(r.weight) * 1000000, Val(r.height) * Val(r.height))
    /\ Classified(r.bmi, r.verdict)

\* the persisted collection, when the file holds one
HasCollection == file.state # "corrupt"

\* the number a well-formed ID carries: the digits after "P", read in base ten
RECURSIVE Pow10(_)
Pow10(k) == IF k = 0 THEN 1 ELSE 10 * Pow10(k - 1)

RECURSIVE WeightedDigits(_, _)
WeightedDigits(id, i) ==
    IF i > Len(id) THEN 0
    ELSE (CHOOSE d \in 0..9 : DigitChars[d + 1] = id[i]) * Pow10(Len(id) - i)
         + WeightedDigits(id, i + 1)

Ordinal(id) == WeightedDigits(id, 2)

\* "P", then at least three digits, zero-padded to three and no further
WellFormedId(id) ==
    /\ Len(id) >= 4
    /\ id[1] = "P"
    /\ \A i \in 2..Len(id) : \E d \in 0..9 : DigitChars[d + 1] = id[i]
    /\ (Len(id) > 4 => id[2] # "0")

Creates(h) == {i \in 1..Len(h) : h[i][1] = "create"}

(***************************************************************************)
(* C1.  After any sequence of create, update and delete operations, every  *)
(* record of the persisted collection has bmi = round(weight / height^2,   *)
(* 2) for its current height and weight, and the verdict the               *)
(* classification table gives that bmi.                                    *)
(***************************************************************************)
C1_BmiAndVerdictConsistent ==
    HasCollection => \A pid \in DOMAIN file.data : BmiConsistent(file.data[pid])

\* an update of the weight alone has been saved, and the collection holds
\* records of two different verdicts
C1_Witness ==
    /\ resp.handler = "update_patient" /\ resp.status = 200
    /\ DOMAIN resp.args.update_data = {"weight"}
    /\ HasCollection
    /\ \E p, q \in DOMAIN file.data : file.data[p].verdict # file.data[q].verdict

(***************************************************************************)
(* C2.  A create assigns the ID "P" followed by the 3-digit zero-padded    *)
(* value of (the greatest numeric suffix among the IDs in the collection)  *)
(* + 1, or P001 when the collection is empty; the ID is not one already in *)
(* the collection; and creates with no deletion yield P001, P002, ...      *)
(***************************************************************************)
C2_CreateStep ==
    /\ resp'.handler = "add_patient" /\ resp'.status = 201
    => LET id == resp'.body.patient_id
           present == DOMAIN file.data
       IN  /\ WellFormedId(id)
           /\ Ordinal(id) = IF present = {} THEN 1
                             ELSE SetMax({Ordinal(p) : p \in present}) + 1
           /\ id \notin present
           /\ DOMAIN file'.data = present \cup {id}
           /\ (Creates(hist') = 1..Len(hist')
                 => \A i \in 1..Len(hist') :
                       hist'[i][2] = <<"P", "0", "0", DigitChars[i + 1]>>)

C2_IdGeneration == [][C2_CreateStep]_vars

\* P001 and P002 were created, P001 was deleted, and the next create got P003
C2_Witness ==
    /\ Len(hist) = 4
    /\ hist[3] = <<"delete", <<"P", "0", "0", "1">>>>
    /\ hist[4] = <<"create", <<"P", "0", "0", "3">>>>
    /\ resp.handler = "add_patient" /\ resp.status = 201

(***************************************************************************)
(* C3.  A deleted ID is not reused: no create returns an ID that an        *)
(* earlier create returned, whichever record was deleted in between.       *)
(***************************************************************************)
C3_NoIdReuse ==
    \A i, j \in Creates(hist) : i < j => hist[i][2] # hist[j][2]

(***************************************************************************)
(* C4.  An update of an existing ID replaces exactly the fields the input  *)
(* carries and leaves the other fields, the ID and every other record      *)
(* unchanged; with height or weight in the input, bmi and verdict are      *)
(* recomputed from the resulting height and weight; with neither, bmi and  *)
(* verdict are unchanged.                                                  *)
(***************************************************************************)
C4_UpdateStep ==
    /\ resp'.handler = "update_patient" /\ resp'.status = 200
    => LET id == resp'.args.patient_id
           u == resp'.args.update_data
           old == file.data[id]
           new == file'.data[id]
       IN  /\ id \in DOMAIN file.data
           /\ DOMAIN file'.data = DOMAIN file.data
           /\ \A o \in DOMAIN file.data \ {id} : file'.data[o] = file.data[o]
           /\ \A k \in Fields :
                 new[k] = IF k \in DOMAIN u THEN u[k] ELSE old[k]
           /\ IF "height" \in DOMAIN u \/ "weight" \in DOMAIN u
              THEN BmiConsistent(new)
              ELSE new.bmi = old.bmi /\ new.verdict = old.verdict
           /\ resp'.body.patient_id = id
           /\ resp'.body.patient_data = new

C4_UpdateFrame == [][C4_UpdateStep]_vars

\* the weight alone was updated, beside another record, and the verdict is the
\* one of the new weight with the stored height
C4_Witness ==
    /\ resp.handler = "update_patient" /\ resp.status = 200
    /\ resp.args.update_data = [weight |-> Some(47)]
    /\ Cardinality(DOMAIN file.data) = 2
    /\ file.data[resp.args.patient_id].height = Some(160)
    /\ file.data[resp.args.patient_id].bmi = 1836
    /\ file.data[resp.args.patient_id].verdict = "Underweight"

(***************************************************************************)
(* C5.  Every failing operation leaves the persisted collection exactly as *)
(* it was before the call.                                                 *)
(***************************************************************************)
C5_FailureStep == resp'.status \notin {200, 201} => file' = file

C5_FailureLeavesFile == [][C5_FailureStep]_vars

(***************************************************************************)
(* C6.  A delete of an existing ID removes exactly that record, returns    *)
(* the data the record had, and leaves the other records unchanged; a get  *)
(* of the ID right after answers NotFound; a delete of an absent ID        *)
(* answers NotFound.                                                       *)
(***************************************************************************)
C6_DeleteStep ==
    /\ (resp'.handler = "delete_patient" /\ resp'.status = 200
        => LET id == resp'.args.patient_id
           IN  /\ id \in DOMAIN file.data
               /\ HasCollection'
               /\ DOMAIN file'.data = DOMAIN file.data \ {id}
               /\ \A o \in DOMAIN file'.data : file'.data[o] = file.data[o]
               /\ resp'.body.deleted_patient_id = id
               /\ resp'.body.deleted_patient_data = file.data[id])
    /\ (resp'.handler = "delete_patient" /\ HasCollection
          /\ resp'.args.patient_id \notin DOMAIN file.data
        => resp'.status = 404 /\ file' = file)
    /\ (resp.handler = "delete_patient" /\ resp.status = 200
          /\ resp'.handler = "get_patient"
          /\ resp'.args.patient_id = resp.args.patient_id
        => resp'.status = 404)

C6_Delete == [][C6_DeleteStep]_vars

\* one of two records was deleted and the get of its ID answered 404
C6_Witness ==
    /\ resp.handler = "get_patient" /\ resp.status = 404
    /\ hist # <<>>
    /\ hist[Len(hist)] = <<"delete", resp.args.patient_id>>
    /\ Cardinality(DOMAIN file.data) = 1

(***************************************************************************)
(* C7.  statistics() on an empty collection returns the empty-statistics   *)
(* indicator; on every non-empty collection it returns the number of       *)
(* records, the least and greatest age and bmi, and gender, city and       *)
(* verdict tables that count the records of each value.                    *)
(***************************************************************************)
IsFrequencyTable(table, field) ==
    /\ DOMAIN table = {file.data[pid][field] : pid \in DOMAIN file.data}
    /\ \A v \in DOMAIN table :
          table[v] = Cardinality({pid \in DOMAIN file.data : file.data[pid][field] = v})

C7_Statistics ==
    resp.handler = "get_patient_statistics" /\ HasCollection
    => IF DOMAIN file.data = {}
       THEN resp.status = 200
            /\ resp.body = [message |-> "No patients found for statistics"]
       ELSE /\ resp.status = 200
            /\ resp.body.total_patients = Cardinality(DOMAIN file.data)
            /\ \A pid \in DOMAIN file.data :
                  /\ resp.body.age_statistics.min_age <= Val(file.data[pid].age)
                  /\ Val(file.data[pid].age) <= resp.body.age_statistics.max_age
                  /\ resp.body.bmi_statistics.min_bmi <= file.data[pid].bmi
                  /\ file.data[pid].bmi <= resp.body.bmi_statistics.max_bmi
            /\ \E pid \in DOMAIN file.data :
                  resp.body.age_statistics.min_age = Val(file.data[pid].age)
            /\ \E pid \in DOMAIN file.data :
                  resp.body.age_statistics.max_age = Val(file.data[pid].age)
            /\ \E pid \in DOMAIN file.data :
                  resp.body.bmi_statistics.min_bmi = file.data[pid].bmi
            /\ \E pid \in DOMAIN file.data :
                  resp.body.bmi_statistics.max_bmi = file.data[pid].bmi
            /\ IsFrequencyTable(resp.body.gender_distribution, "gender")
            /\ IsFrequencyTable(resp.body.city_distribution, "city")
            /\ IsFrequencyTable(resp.body.bmi_verdict_distribution, "verdict")

(***************************************************************************)
(* C8.  A GET request for /patients/stats is dispatched to the statistics  *)
(* operation, not to the get-by-id operation with the ID "stats".          *)
(***************************************************************************)
C8_StatsRouted ==
    req = HttpRequest("GET", <<seg_patients, seg_stats>>)
    => resp.handler = "get_patient_statistics"

(***************************************************************************)
(* C10.  After any sequence of create, update and delete operations, every *)
(* record of the persisted collection has all of name, city, age, gender,  *)
(* height, weight, bmi and verdict with non-null values, so that           *)
(* statistics() on a non-empty collection never fails.                     *)
(***************************************************************************)
C10_NoNullField ==
    HasCollection
    => /\ \A pid \in DOMAIN file.data : \A k \in Fields : ~IsNone(file.data[pid][k])
       /\ (resp.handler = "get_patient_statistics" => resp.status = 200)

(***************************************************************************)
(* C9.  When two mutating requests interleave their load and save steps,   *)
(* updates can be lost: the save of a request replaces the file by the     *)
(* collection that request loaded plus its own change, so whatever another *)
(* request saved in between is gone although both reported success.        *)
(***************************************************************************)
\* the ID the successful response r names
Target(r) ==
    IF r.handler = "delete_patient" THEN r.body.deleted_patient_id
    ELSE r.body.patient_id

\* once the request that wrote the file last has answered, and until its
\* worker answers another, the file is the collection that request loaded, but
\* for the record it changed
C9_LastWriteWins ==
    /\ writer # 0 /\ HasCollection
    /\ workers[writer].pc = "done" /\ workers[writer].resp.status \in {200, 201}
    => LET loaded == workers[writer].snapshot.data
           id == Target(workers[writer].resp)
       IN  /\ DOMAIN file.data \ {id} = DOMAIN loaded \ {id}
           /\ \A o \in DOMAIN file.data \ {id} : file.data[o] = loaded[o]

\* two creates loaded the same collection, both answered 201 with the same ID
\* for different records, and the file holds one record
C9_Witness ==
    /\ workers[1].pc = "done" /\ workers[2].pc = "done"
    /\ workers[1].snapshot = workers[2].snapshot
    /\ workers[1].resp.handler = "add_patient" /\ workers[1].resp.status = 201
    /\ workers[2].resp.handler = "add_patient" /\ workers[2].resp.status = 201
    /\ workers[1].resp.body.patient_id = workers[2].resp.body.patient_id
    /\ workers[1].resp.body.patient_data # workers[2].resp.body.patient_data
    /\ HasCollection
    /\ DOMAIN file.data = {workers[1].resp.body.patient_id}
    /\ file.data[workers[1].resp.body.patient_id] = workers[writer].resp.body.patient_data

=============================================================================
